---- MODULE Spec2Model ----
(***************************************************************************)
(* Model of SCP002/executor: Command.Start of src/executor.go (the         *)
(* Command/StartOptions revision, lines 130-402), its pipe wiring, the     *)
(* goroutines it launches, the goroutines os/exec launches for redirected  *)
(* streams, the child processes, and the scan loop (also in the revision   *)
(* of src/unnamed/part_003).                                               *)
(*                                                                         *)
(* Conventions.                                                            *)
(*  - One caller goroutine issues PipeStdoutTo / PipeStderrTo / Start one  *)
(*    after another (Start blocks its caller); what a Start launched keeps *)
(*    running after it returned.                                           *)
(*  - An io.Pipe is unbuffered: a Write completes only by handing its      *)
(*    bytes to a concurrent Read (action Transfer); only the two close     *)
(*    flags are state.                                                     *)
(*  - The OS pipe between a child and os/exec's copying goroutine is a     *)
(*    buffer (osOut, osErr, osIn).                                         *)
(*  - A stream carries "units": a number below 256 is a raw byte, a larger *)
(*    one a code point already decoded by the configured Encoding.         *)
(***************************************************************************)
EXTENDS Integers, Sequences, FiniteSets, TLC

\* ------------------------------------------------------------------ bounds
MaxOut == 2     \* longest stdout script of a producer process
MaxErr == 1     \* longest stderr script of a producer process
MaxExit == 1    \* exit statuses are 0..MaxExit
MaxLen == 3     \* longest input handed to the scan loop on its own
MaxStarts == 2  \* Start calls made on one Command
MaxSignals == 1 \* interrupt / terminate signals delivered to the program

\* ------------------------------------------------------- program constants
LF == 10
CR == 13
RuneError == 65533
NoExitCode == -1

Cmds == {"A", "B"}
NoCmd == "nil"
\* The pipe declarations the caller may make: upstream, downstream.
PipePairs == {<<"A", "B">>}

\* What a producer may write: disjoint alphabets, so that a merged stream
\* can be split again by origin. 200 (0xC8) is not valid UTF-8 on its own.
OutBytes == {97, 200}
ErrBytes == {101}
ScanInputBytes == {97, LF, CR}

RECURSIVE SeqsUpTo(_, _)
SeqsUpTo(S, n) ==
    IF n = 0 THEN {<<>>}
    ELSE LET shorter == SeqsUpTo(S, n - 1)
         IN  shorter \cup {Append(s, x) : s \in {t \in shorter : Len(t) = n - 1}, x \in S}

RECURSIVE Filter(_, _)
Filter(s, S) ==
    IF s = <<>> THEN <<>>
    ELSE IF Head(s) \in S THEN <<Head(s)>> \o Filter(Tail(s), S)
         ELSE Filter(Tail(s), S)

IsPrefix(s, t) == Len(s) <= Len(t) /\ SubSeq(t, 1, Len(s)) = s

\* ---------------------------------------------------------------- options
NoEncoding == "nil"
CP866 == "cp866"

\* charmap.CodePage866's decoder: ASCII is kept, 0xC8 is U+255A.
Decode866(b) == IF b < 128 THEN b ELSE IF b = 200 THEN 9562 ELSE RuneError

\* transform.NewReader(reader, opts.Encoding.NewDecoder()) applied to a chunk.
TransformChunk(enc, chunk) ==
    IF enc = NoEncoding THEN chunk
    ELSE [i \in 1..Len(chunk) |-> Decode866(chunk[i])]

\* bufio.ScanRunes on one unit: a raw byte that is no valid UTF-8 becomes
\* U+FFFD; ASCII and already decoded code points are kept.
ScanRune(u) == IF u >= 128 /\ u < 256 THEN RuneError ELSE u

\* ------------------------------------------------------------ the scan loop
\* The scanner's accumulators: outSb (Result.Output), lineSb, and the logs of
\* the arguments given to OnChar and OnLine.
ScanState0 == [outSb |-> <<>>, lineSb |-> <<>>, chars |-> <<>>, lines |-> <<>>]

\* Line terminators of the scan closure of Command.Start.
IsTerminator(char) == char = LF \/ char = CR

\* Faulty variant of lines 265-270, treating Capture and OnChar as
\* alternatives: C11 depends on both being served for every character.
scanCharExclusive(s, char, o) ==
    [outSb  |-> IF o.Capture THEN Append(s.outSb, char) ELSE s.outSb,
     chars  |-> IF o.OnChar /\ ~o.Capture THEN Append(s.chars, char) ELSE s.chars,
     lines  |-> s.lines,
     lineSb |-> s.lineSb]

\* One iteration of `for scanner.Scan()` in the scan closure.
scanChar(s, char, o) ==
    [outSb  |-> IF o.Capture THEN Append(s.outSb, char) ELSE s.outSb,
     chars  |-> IF o.OnChar THEN Append(s.chars, char) ELSE s.chars,
     lines  |-> IF o.OnLine /\ IsTerminator(char) THEN Append(s.lines, s.lineSb) ELSE s.lines,
     lineSb |-> IF ~o.OnLine THEN s.lineSb
                ELSE IF IsTerminator(char) THEN <<>> ELSE Append(s.lineSb, char)]

\* The same iteration in the Options revision of Start (part_003): output is
\* always captured and only "\n" ends a line.
scanCharOptions(s, char, o) ==
    [outSb  |-> Append(s.outSb, char),
     chars  |-> IF o.OnChar THEN Append(s.chars, char) ELSE s.chars,
     lines  |-> IF o.OnLine /\ char = LF THEN Append(s.lines, s.lineSb) ELSE s.lines,
     lineSb |-> IF ~o.OnLine THEN s.lineSb
                ELSE IF char # LF THEN Append(s.lineSb, char) ELSE <<>>]

\* The scanner consuming a chunk of units it has read.
RECURSIVE scanChunk(_, _, _)
scanChunk(s, chunk, o) ==
    IF chunk = <<>> THEN s
    ELSE scanChunk(scanChar(s, ScanRune(Head(chunk)), o), Tail(chunk), o)


\* ------------------------------------------------------------------ pipes
P(c, role) == [cmd |-> c, role |-> role]
NilPipe == P("nil", "nil")          \* a nil *io.PipeReader / *io.PipeWriter
OsStdin == P("os", "stdin")         \* os.Stdin, os.Stdout, os.Stderr: files,
OsStdout == P("os", "stdout")       \* handed to the child as they are
OsStderr == P("os", "stderr")
IsPipe(p) == p.cmd \in Cmds

\* io.Pipe() of Start: the three scan pipes of every Start (stdoutReader/
\* stdoutWriter, stderrReader/stderrWriter, combinedReader/combinedWriter)
\* and the forwarding pipes kept in the Command.
ScanRoles == {"stdout", "stderr", "combined"}
ForwardRoles == {"stdoutPipe", "stderrPipe", "combinedPipe"}
\* The pipes a later Start on the same Command makes anew, by the role of
\* the pipe they stand in for.
SecondRoles ==
    {"stdout2", "stderr2", "combined2", "stdoutPipe2", "stderrPipe2", "combinedPipe2"}
Second(role) ==
    CASE role = "stdout" -> "stdout2" [] role = "stderr" -> "stderr2"
      [] role = "combined" -> "combined2" [] role = "stdoutPipe" -> "stdoutPipe2"
      [] role = "stderrPipe" -> "stderrPipe2" [] role = "combinedPipe" -> "combinedPipe2"
      [] OTHER -> role
PipeRoles == ScanRoles \cup ForwardRoles \cup SecondRoles

\* os/exec's copying goroutines of a started Cmd, and the goroutines of Start.
ExecRoles == {"stdoutCopy", "stderrCopy", "stdinCopy"}
StartRoles == {"copyStdout", "copyStderr", "scan"}
SecondStartRoles == {"copyStdout2", "copyStderr2", "scan2"}
FirstRole(r) ==
    CASE r = "copyStdout2" -> "copyStdout" [] r = "copyStderr2" -> "copyStderr"
      [] r = "scan2" -> "scan" [] OTHER -> r
ThreadRoles == ExecRoles \cup StartRoles \cup SecondStartRoles

VARIABLES
    cmd,          \* [Cmds -> Command]: the struct and its exec.Cmd
    pipe,         \* [Cmds -> [PipeRoles -> io.Pipe]]
    proc,         \* [Cmds -> child process]
    thr,          \* [Cmds -> [ThreadRoles -> goroutine]]
    opts,         \* [Cmds -> StartOptions of the Start call on it]
    sb,           \* [Cmds -> accumulators of the scan closure (outSb, ...)]
    scanDoneCh,   \* [Cmds -> number of values in scanDoneCh (capacity 1)]
    call,         \* the caller's Start in progress
    ret,          \* [Cmds -> what Start returned]
    sc,           \* the scan loop run on its own over a given input
    run,          \* a Start with its context, timer and signal channel
    net           \* the Command structs of a topology of three Commands

vars == <<cmd, pipe, proc, thr, opts, sb, scanDoneCh, call, ret, sc, run, net>>

\* ---------------------------------------------------------- initial values
Command0 ==
    [prevCmd |-> NoCmd,
     stdoutPipe |-> NilPipe, stderrPipe |-> NilPipe, combinedPipe |-> NilPipe,
     receiveStdout |-> FALSE, receiveStderr |-> FALSE,
     sendStdout |-> FALSE, sendStderr |-> FALSE,
     Stdout |-> <<>>, Stderr |-> <<>>,      \* cmd.Stdout, cmd.Stderr: nil
     Stdin |-> OsStdin,                     \* NewCommand: cmd.Stdin = os.Stdin
     Process |-> FALSE,                     \* cmd.Process != nil
     ProcessState |-> FALSE]                \* cmd.ProcessState != nil

Pipe0 == [made |-> FALSE, rclosed |-> FALSE, wclosed |-> FALSE, written |-> <<>>]

\* A goroutine: what it reads (src, an io.Pipe, or NilPipe for an OS pipe), the
\* writers it writes each chunk to in turn (dst), the decoder wrapped around
\* its reader (enc), the chunk in its buffer (hand) and the writer it is at.
Thread0 == [st |-> "off", hand |-> <<>>, idx |-> 1, src |-> NilPipe, dst |-> <<>>,
            enc |-> NoEncoding]

\* The programs run: A writes a script to stdout and one to stderr, in any
\* interleaving, and exits; B copies its stdin to its stdout until
\* end-of-file and exits (a pass-through filter).
Programs(c) ==
    IF c = "A"
    THEN [kind : {"emit"}, out : SeqsUpTo(OutBytes, MaxOut), err : SeqsUpTo(ErrBytes, MaxErr),
          statuses : {0..MaxExit}]
    ELSE [kind : {"cat"}, out : {<<>>}, err : {<<>>}, statuses : {{0}}]

\* In a chain A writes the first n bytes of a fixed text to stdout, and
\* nothing or one byte to stderr; it exits with 0 or 1.
ChainScript(n) == [i \in 1..n |-> IF i % 2 = 1 THEN 200 ELSE 97]
ChainErrScripts == {<<>>, <<101>>}
ChainStatuses == {0, 1}

ChainPrograms(c) ==
    IF c = "A"
    THEN [kind : {"emit"}, out : {ChainScript(n) : n \in 0..MaxOut}, err : ChainErrScripts,
          statuses : {ChainStatuses}]
    ELSE [kind : {"cat"}, out : {<<>>}, err : {<<>>}, statuses : {{0}}]

Process0(prog) ==
    [kind |-> prog.kind, statuses |-> prog.statuses, st |-> "none",
     toOut |-> prog.out, toErr |-> prog.err,     \* still to be written
     osOut |-> <<>>, osErr |-> <<>>,             \* OS pipes towards os/exec
     osIn |-> <<>>, inClosed |-> TRUE,           \* OS pipe from os/exec
     outTo |-> "null", errTo |-> "null",         \* where fd 1 and fd 2 lead
     sawEOF |-> FALSE, status |-> 0,
     spawned |-> 0,                              \* history: processes spawned
     emittedOut |-> <<>>, emittedErr |-> <<>>,   \* history: written so far
     stdinGot |-> <<>>]                          \* history: read from stdin

Options0 ==
    [ScanStdout |-> FALSE, ScanStderr |-> FALSE, Capture |-> FALSE, Wait |-> FALSE,
     Encoding |-> NoEncoding, NewConsole |-> FALSE, Hide |-> FALSE,
     OnChar |-> FALSE, OnLine |-> FALSE]

\* The StartOptions the caller passes to the Start of a Command that is in no
\* pipe declaration.
SingleOptions ==
    [ScanStdout : BOOLEAN, ScanStderr : BOOLEAN, Capture : BOOLEAN, Wait : BOOLEAN,
     Encoding : {NoEncoding, CP866}, NewConsole : BOOLEAN, Hide : {FALSE},
     OnChar : {FALSE}, OnLine : {FALSE}]

\* The StartOptions the caller passes in a chain: to the upstream A, to the
\* downstream B.
ChainOptions(c) ==
    IF c = "A"
    THEN [ScanStdout : BOOLEAN, ScanStderr : BOOLEAN, Capture : {TRUE}, Wait : BOOLEAN,
          Encoding : {NoEncoding}, NewConsole : {FALSE}, Hide : {FALSE},
          OnChar : {FALSE}, OnLine : {FALSE}]
    ELSE [ScanStdout : {TRUE}, ScanStderr : {FALSE}, Capture : {TRUE}, Wait : BOOLEAN,
          Encoding : {NoEncoding}, NewConsole : {FALSE}, Hide : {FALSE},
          OnChar : {FALSE}, OnLine : {FALSE}]

Result0 == [StartOk |-> FALSE, DoneOk |-> FALSE, ExitCode |-> NoExitCode, Output |-> <<>>]

CallIdle == [cmd |-> NoCmd, pc |-> "idle", res |-> Result0, waited |-> {}, spawns |-> 0]

\* What a Start returned: the Result, the error's text ("nil" for a nil
\* error) and the error it wraps (%w); waited and spawns record which
\* Commands' cmd.Wait() and how many cmd.Start() the call made.
Ret0 ==
    [returned |-> FALSE, res |-> Result0, err |-> "nil", cause |-> "nil",
     waited |-> {}, spawns |-> 0, starts |-> 0]

\* The scan loop run on its own: which revision's loop (variant), the
\* characters its reader yields (input), how many it has taken (pos), whether
\* scanner.Scan() has returned false (done).
ScIdle ==
    [variant |-> "nil", input |-> <<>>, pos |-> 0, done |-> FALSE,
     o |-> Options0, s |-> ScanState0]

\* One Start followed on its own with what can end its process from outside:
\* the context's deadline and the interrupt / terminate signals.  variant
\* names the revision ("Options": Start(opts Options) with opts.Timeout;
\* "Command": NewCommand(ctx, ...) followed by Start), sleeper tells whether
\* the program never exits by itself, ctx is the state of the context the
\* exec.Cmd was made with, watch is os/exec's goroutine that kills the process
\* once ctx is done, notify tells whether signal.Notify has registered
\* sigIntCh, sigIntCh counts the signals buffered in it (capacity 1), listener
\* is the goroutine that receives from sigIntCh; signals and kills count the
\* signals delivered and the kills the listener requested.
RunIdle ==
    [variant |-> "nil", o |-> [Wait |-> FALSE, Timeout |-> FALSE], sleeper |-> FALSE,
     pc |-> "idle", Process |-> FALSE, ProcessState |-> FALSE,
     p |-> "none", status |-> 0, killed |-> FALSE,
     ctx |-> "background", watch |-> "off",
     notify |-> FALSE, sigIntCh |-> 0, listener |-> "off",
     signals |-> 0, kills |-> 0, crashed |-> FALSE,
     res |-> Result0, err |-> "nil"]

\* Three Commands as NewCommand returns them, followed only as far as the
\* declarations and the wiring of Start go: the flags, prevCmd, the three
\* forwarding pipes (by the Command and field that made them, NilPipe for nil)
\* and cmd.Stdin; started tells whether Start has run, sources and inOrder
\* record who declared a pipe to the Command and whether all of them had
\* been started when it was.
Names == {"A", "B", "C"}

NetCommand0 ==
    [prevCmd |-> NoCmd,
     stdoutPipe |-> NilPipe, stderrPipe |-> NilPipe, combinedPipe |-> NilPipe,
     receiveStdout |-> FALSE, receiveStderr |-> FALSE,
     sendStdout |-> FALSE, sendStderr |-> FALSE,
     Stdin |-> OsStdin, started |-> FALSE, sources |-> {}, inOrder |-> FALSE]

NetIdle == [c \in Names |-> NetCommand0]

\* The state after NewCommand for each Command, before any declaration.
Constructed ==
    /\ cmd = [c \in Cmds |-> Command0]
    /\ pipe = [c \in Cmds |-> [r \in PipeRoles |-> Pipe0]]
    /\ thr = [c \in Cmds |-> [r \in ThreadRoles |-> Thread0]]
    /\ opts = [c \in Cmds |-> Options0]
    /\ sb = [c \in Cmds |-> ScanState0]
    /\ scanDoneCh = [c \in Cmds |-> 0]
    /\ call = CallIdle
    /\ ret = [c \in Cmds |-> Ret0]

\* The children to be run: A's program from programsA, B's from programsB.
Children(programsA, programsB) ==
    {[c \in Cmds |-> Process0(IF c = "A" THEN a ELSE b)] : a \in programsA, b \in programsB}

Init == Constructed /\ proc \in Children(Programs("A"), Programs("B")) /\ sc = ScIdle /\ run = RunIdle /\ net = NetIdle

\* ------------------------------------------------------- pipe declarations
\* Structural edits are made before any Start.
NothingStarted == call.pc = "idle" /\ \A c \in Cmds : ~ret[c].returned

PipeStdoutTo(c, to) ==
    /\ NothingStarted
    /\ ~cmd[c].sendStdout
    /\ cmd' = [cmd EXCEPT ![c].sendStdout = TRUE,
                          ![to].receiveStdout = TRUE,
                          ![to].prevCmd = c]
    /\ UNCHANGED <<pipe, proc, thr, opts, sb, scanDoneCh, call, ret, sc, run, net>>

PipeStderrTo(c, to) ==
    /\ NothingStarted
    /\ ~cmd[c].sendStderr
    /\ cmd' = [cmd EXCEPT ![c].sendStderr = TRUE,
                          ![to].receiveStderr = TRUE,
                          ![to].prevCmd = c]
    /\ UNCHANGED <<pipe, proc, thr, opts, sb, scanDoneCh, call, ret, sc, run, net>>

\* ------------------------------------------- Start: wiring (lines 227-345)
Console(o) == o.NewConsole \/ o.Hide

\* Faulty variant of lines 302-306, forwarding instead of duplicating: C9
\* depends on the io.MultiWriter.
ExclusiveBinding(scanned, scanW, forwardW) == <<forwardW>>

\* cmd.Stdout after lines 237-239 and 300-326 (the non-console branch): the
\* scan writer, the forwarding writer, or an io.MultiWriter of both.
MultiWriterBinding(scanned, scanW, forwardW) ==
    IF scanned THEN <<scanW, forwardW>> ELSE <<forwardW>>

StdoutBinding(c, o) ==
    LET own == IF o.ScanStdout \/ cmd[c].sendStdout THEN <<P(c, "stdout")>> ELSE cmd[c].Stdout
    IN  IF cmd[c].sendStdout /\ cmd[c].sendStderr
        THEN MultiWriterBinding(o.ScanStdout, P(c, "stdout"), P(c, "combinedPipe"))
        ELSE IF cmd[c].sendStdout
        THEN MultiWriterBinding(o.ScanStdout, P(c, "stdout"), P(c, "stdoutPipe"))
        ELSE own

StderrBinding(c, o) ==
    LET own == IF o.ScanStderr \/ cmd[c].sendStderr THEN <<P(c, "stderr")>> ELSE cmd[c].Stderr
    IN  IF cmd[c].sendStdout /\ cmd[c].sendStderr
        THEN MultiWriterBinding(o.ScanStderr, P(c, "stderr"), P(c, "combinedPipe"))
        ELSE IF cmd[c].sendStdout
        THEN own
        ELSE IF cmd[c].sendStderr
        THEN MultiWriterBinding(o.ScanStderr, P(c, "stderr"), P(c, "stderrPipe"))
        ELSE own

\* The forwarding pipe created at lines 300-326, by its field in Command.
ForwardRole(c) ==
    IF cmd[c].sendStdout /\ cmd[c].sendStderr THEN "combinedPipe"
    ELSE IF cmd[c].sendStdout THEN "stdoutPipe"
    ELSE IF cmd[c].sendStderr THEN "stderrPipe"
    ELSE "nil"

\* cmd.Stdin after lines 328-334: a reader of the upstream Command, nil when
\* the upstream has not created that pipe.
StdinBinding(c) ==
    LET prev == cmd[c].prevCmd
    IN  IF cmd[c].receiveStdout /\ cmd[c].receiveStderr THEN cmd[prev].combinedPipe
        ELSE IF cmd[c].receiveStdout THEN cmd[prev].stdoutPipe
        ELSE IF cmd[c].receiveStderr THEN cmd[prev].stderrPipe
        ELSE cmd[c].Stdin

\* The goroutines launched at lines 336-344, each reading through the
\* decoder of lines 282-285 and 291-294.
StartThreads(o) ==
    IF o.ScanStdout /\ o.ScanStderr THEN {"copyStdout", "copyStderr", "scan"}
    ELSE IF o.ScanStdout \/ o.ScanStderr THEN {"scan"}
    ELSE {}

StartThread(c, r, o) ==
    LET reading == [Thread0 EXCEPT !.st = "read"]
    IN  IF r = "copyStdout"
        THEN [reading EXCEPT !.src = P(c, "stdout"), !.dst = <<P(c, "combined")>>, !.enc = o.Encoding]
        ELSE IF r = "copyStderr"
        THEN [reading EXCEPT !.src = P(c, "stderr"), !.dst = <<P(c, "combined")>>, !.enc = o.Encoding]
        ELSE IF o.ScanStdout /\ o.ScanStderr
        THEN [reading EXCEPT !.src = P(c, "combined")]
        ELSE IF o.ScanStdout
        THEN [reading EXCEPT !.src = P(c, "stdout"), !.enc = o.Encoding]
        ELSE [reading EXCEPT !.src = P(c, "stderr"), !.enc = o.Encoding]

\* The caller starts a Command once, a downstream after its upstream's Start
\* has returned.
MayStart(c) ==
    /\ call.pc = "idle"
    /\ ~ret[c].returned
    /\ cmd[c].prevCmd # NoCmd => ret[cmd[c].prevCmd].returned

\* Start, from its entry to the call of c.cmd.Start().
StartBegin(c, o) ==
    /\ MayStart(c)
    /\ opts' = [opts EXCEPT ![c] = o]
    /\ sb' = [sb EXCEPT ![c] = ScanState0]
    /\ scanDoneCh' = [scanDoneCh EXCEPT ![c] = 0]
    /\ call' = [CallIdle EXCEPT !.cmd = c, !.pc = "spawn"]
    /\ IF Console(o)
       THEN /\ cmd' = [cmd EXCEPT ![c].Stdout = <<OsStdout>>, ![c].Stderr = <<OsStderr>>]
            /\ pipe' = [pipe EXCEPT ![c] = [r \in PipeRoles |->
                            IF r \in ScanRoles THEN [Pipe0 EXCEPT !.made = TRUE] ELSE @[r]]]
            /\ thr' = thr
       ELSE /\ cmd' = [cmd EXCEPT
                  ![c].Stdout = StdoutBinding(c, o),
                  ![c].Stderr = StderrBinding(c, o),
                  ![c].Stdin = StdinBinding(c),
                  ![c].stdoutPipe = IF ForwardRole(c) = "stdoutPipe" THEN P(c, "stdoutPipe") ELSE @,
                  ![c].stderrPipe = IF ForwardRole(c) = "stderrPipe" THEN P(c, "stderrPipe") ELSE @,
                  ![c].combinedPipe = IF ForwardRole(c) = "combinedPipe" THEN P(c, "combinedPipe") ELSE @]
            /\ pipe' = [pipe EXCEPT ![c] = [r \in PipeRoles |->
                            IF r \in ScanRoles \/ r = ForwardRole(c)
                            THEN [Pipe0 EXCEPT !.made = TRUE] ELSE @[r]]]
            /\ thr' = [thr EXCEPT ![c] = [r \in ThreadRoles |->
                            IF r \in StartThreads(o) THEN StartThread(c, r, o) ELSE @[r]]]
    /\ UNCHANGED <<proc, ret, sc, run, net>>


\* --------------------------------------------- Start: spawn (lines 347-351)
\* A nil *io.PipeReader as cmd.Stdin: the goroutine os/exec starts to feed
\* the child dereferences it and the program panics.
Crashed == \E c \in Cmds : thr[c]["stdinCopy"].st = "panic"

CallOf(c) == call.cmd = c /\ ~Crashed

\* Start returns (res, err), err wrapping cause.
Return(c, res, err, cause, waited, spawns) ==
    /\ ret' = [ret EXCEPT ![c] = [returned |-> TRUE, res |-> res, err |-> err,
                                  cause |-> cause, waited |-> waited, spawns |-> spawns,
                                  starts |-> ret[c].starts + 1]]
    /\ call' = CallIdle

\* os/exec gives the child a file as it is; for any other writer it makes an
\* OS pipe and a goroutine copying from it; Stdout and Stderr that are the
\* same writer share one descriptor.
IsWriter(b) == b # <<>> /\ IsPipe(b[1])

ExecThread(c, r) ==
    LET reading == [Thread0 EXCEPT !.st = "read"]
    IN  IF r = "stdoutCopy"
        THEN IF IsWriter(cmd[c].Stdout) THEN [reading EXCEPT !.dst = cmd[c].Stdout] ELSE Thread0
        ELSE IF r = "stderrCopy"
        THEN IF IsWriter(cmd[c].Stderr) /\ cmd[c].Stderr # cmd[c].Stdout
             THEN [reading EXCEPT !.dst = cmd[c].Stderr] ELSE Thread0
        ELSE IF cmd[c].Stdin = NilPipe THEN [Thread0 EXCEPT !.st = "panic"]
        ELSE IF IsPipe(cmd[c].Stdin) THEN [reading EXCEPT !.src = cmd[c].Stdin]
        ELSE Thread0

\* Faulty variant of line 353, never waiting for the upstream: C8 depends
\* on the wait.
AfterSpawnNoUpstream(c) == IF opts[c].Wait THEN "waitOwn" ELSE "result"

\* Where Start goes after a successful spawn and after the upstream's pipes
\* are closed: lines 353 and 369 are conditionals.
AfterSpawn(c) == IF cmd[c].prevCmd # NoCmd THEN "waitPrev" ELSE IF opts[c].Wait THEN "waitOwn" ELSE "result"
AfterClosePrev(c) == IF opts[c].Wait THEN "waitOwn" ELSE "result"

\* Faulty variant of lines 348-350, carrying on as if spawned: C6 depends on
\* the return.
SpawnFailedQuietly(c) ==
    Return(c, [call.res EXCEPT !.StartOk = TRUE], "nil", "nil", call.waited, call.spawns + 1)

\* The error return of line 349.
SpawnFailed(c) ==
    Return(c, call.res, "Start process", "spawn", call.waited, call.spawns + 1)

\* c.cmd.Start() fails: Start returns the error.
SpawnFail(c) ==
    /\ CallOf(c) /\ call.pc = "spawn"
    /\ SpawnFailed(c)
    /\ UNCHANGED <<cmd, pipe, proc, thr, opts, sb, scanDoneCh, sc, run, net>>

\* Faulty variant of c.cmd.Start() without os/exec's "already started"
\* check: C13 depends on the check.
StartedOrNot(c) == TRUE

\* c.cmd.Start() of an exec.Cmd whose Process is set returns the error
\* "exec: already started".
NotStarted(c) == ~cmd[c].Process

\* c.cmd.Start() succeeds: the child runs, os/exec's goroutines run.
SpawnOk(c) ==
    /\ CallOf(c) /\ call.pc = "spawn"
    /\ NotStarted(c)
    /\ cmd' = [cmd EXCEPT ![c].Process = TRUE]
    /\ proc' = [proc EXCEPT
          ![c].st = "running",
          ![c].spawned = @ + 1,
          ![c].inClosed = ~IsPipe(cmd[c].Stdin),
          ![c].outTo = IF IsWriter(cmd[c].Stdout) THEN "osOut" ELSE "null",
          ![c].errTo = IF ~IsWriter(cmd[c].Stderr) THEN "null"
                       ELSE IF cmd[c].Stderr = cmd[c].Stdout THEN "osOut" ELSE "osErr"]
    /\ thr' = [thr EXCEPT ![c] = [r \in ThreadRoles |->
                    IF r \in ExecRoles THEN ExecThread(c, r) ELSE @[r]]]
    /\ call' = [call EXCEPT !.res.StartOk = TRUE, !.pc = AfterSpawn(c), !.spawns = @ + 1]
    /\ UNCHANGED <<pipe, opts, sb, scanDoneCh, ret, sc, run, net>>


\* ------------------------------------------------------------- cmd.Wait()
\* Wait returns once the child has exited and os/exec's goroutines are done.
GoroutinesDone(x) == \A r \in ExecRoles : thr[x][r].st \in {"off", "done", "fail"}

WaitReady(x) == proc[x].st = "exited" /\ GoroutinesDone(x)

\* What x.cmd.Wait() may return now, and whether it sets ProcessState:
\* "exit" is an *exec.ExitError, "copy" an error of a copying goroutine, "io"
\* a failure of the wait system call, which Wait returns when the goroutines
\* are done, without a ProcessState.
WaitOutcomes(x) ==
    IF ~cmd[x].Process THEN {[err |-> "not started", state |-> FALSE]}
    ELSE IF cmd[x].ProcessState THEN {[err |-> "already called", state |-> FALSE]}
    ELSE (IF GoroutinesDone(x) THEN {[err |-> "io", state |-> FALSE]} ELSE {}) \cup
         (IF WaitReady(x)
          THEN {[err |-> IF proc[x].status # 0 THEN "exit"
                         ELSE IF \E r \in ExecRoles : thr[x][r].st = "fail" THEN "copy"
                         ELSE "nil",
                 state |-> TRUE]}
          ELSE {})

\* Line 354: any error of the upstream's Wait ends Start.
WaitPrevFails(err) == err # "nil"

\* Faulty variant of line 371, without the errors.As filter: C1 depends on
\* the filter.
AnyErrorFails(err) == err # "nil"

\* Line 371: err != nil && !errors.As(err, &exitErr).
WaitOwnFails(err) == err # "nil" /\ err # "exit"

\* ------------------------------------- Start: the upstream (lines 353-367)
WaitPrev(c) ==
    /\ CallOf(c) /\ call.pc = "waitPrev"
    /\ LET prev == cmd[c].prevCmd
       IN  \E w \in WaitOutcomes(prev) :
            /\ cmd' = [cmd EXCEPT ![prev].ProcessState = @ \/ w.state]
            /\ IF WaitPrevFails(w.err)
               THEN Return(c, call.res, "Wait for previous process", w.err,
                           call.waited \cup {prev}, call.spawns)
               ELSE /\ call' = [call EXCEPT !.pc = "closePrev", !.waited = @ \cup {prev}]
                    /\ ret' = ret
    /\ UNCHANGED <<pipe, proc, thr, opts, sb, scanDoneCh, sc, run, net>>

\* The forwarding writers of the upstream that are not nil.
ForwardPipesOf(x) ==
    {r \in ForwardRoles : cmd[x][r] # NilPipe}

ClosePrev(c) ==
    /\ CallOf(c) /\ call.pc = "closePrev"
    /\ LET prev == cmd[c].prevCmd
       IN  pipe' = [pipe EXCEPT ![prev] = [r \in PipeRoles |->
                        IF r \in ForwardPipesOf(prev) THEN [@[r] EXCEPT !.wclosed = TRUE] ELSE @[r]]]
    /\ call' = [call EXCEPT !.pc = AfterClosePrev(c)]
    /\ UNCHANGED <<cmd, proc, thr, opts, sb, scanDoneCh, ret, sc, run, net>>

\* ------------------------------------ Start: the own wait (lines 369-393)
WaitOwn(c) ==
    /\ CallOf(c) /\ call.pc = "waitOwn"
    /\ \E w \in WaitOutcomes(c) :
        /\ cmd' = [cmd EXCEPT ![c].ProcessState = @ \/ w.state]
        /\ IF WaitOwnFails(w.err)
           THEN Return(c, call.res, "Wait for process", w.err,
                       call.waited \cup {c}, call.spawns)
           ELSE /\ call' = [call EXCEPT !.pc = "closeReaders", !.waited = @ \cup {c}]
                /\ ret' = ret
    /\ UNCHANGED <<pipe, proc, thr, opts, sb, scanDoneCh, sc, run, net>>

\* Lines 374-389: the read ends of the scan pipes and of the own forwarding
\* pipes are closed.
CloseReaders(c) ==
    /\ CallOf(c) /\ call.pc = "closeReaders"
    /\ pipe' = [pipe EXCEPT ![c] = [r \in PipeRoles |->
                    IF r \in ScanRoles \cup ForwardPipesOf(c)
                    THEN [@[r] EXCEPT !.rclosed = TRUE] ELSE @[r]]]
    /\ call' = [call EXCEPT !.pc = IF opts[c].ScanStderr \/ opts[c].ScanStdout
                                   THEN "awaitScan" ELSE "result"]
    /\ UNCHANGED <<cmd, proc, thr, opts, sb, scanDoneCh, ret, sc, run, net>>

\* Faulty variant of line 391, going on without receiving: C4 depends on
\* the receive.
AwaitScanSkipped(c) ==
    /\ CallOf(c) /\ call.pc = "awaitScan"
    /\ call' = [call EXCEPT !.pc = "result"]
    /\ UNCHANGED <<cmd, pipe, proc, thr, opts, sb, scanDoneCh, ret, sc, run, net>>

\* Line 391: <-scanDoneCh.
AwaitScan(c) ==
    /\ CallOf(c) /\ call.pc = "awaitScan"
    /\ scanDoneCh[c] > 0
    /\ scanDoneCh' = [scanDoneCh EXCEPT ![c] = @ - 1]
    /\ call' = [call EXCEPT !.pc = "result"]
    /\ UNCHANGED <<cmd, pipe, proc, thr, opts, sb, ret, sc, run, net>>

\* ------------------------------------- Start: the Result (lines 395-401)
\* Faulty variant of lines 395-398, without the test of ProcessState: C12
\* depends on the test.
ResultOfUnchecked(c, res) ==
    [res EXCEPT !.DoneOk = proc[c].status = 0, !.ExitCode = proc[c].status,
                !.Output = sb[c].outSb]

ResultOf(c, res) ==
    [res EXCEPT
        !.DoneOk = IF cmd[c].ProcessState THEN proc[c].status = 0 ELSE @,
        !.ExitCode = IF cmd[c].ProcessState THEN proc[c].status ELSE @,
        !.Output = sb[c].outSb]

Finish(c) ==
    /\ CallOf(c) /\ call.pc = "result"
    /\ Return(c, ResultOf(c, call.res), "nil", "nil", call.waited, call.spawns)
    /\ UNCHANGED <<cmd, pipe, proc, thr, opts, sb, scanDoneCh, sc, run, net>>


\* ------------------------------------------------------ the child process
\* The child writes the next unit of its stdout: into the OS pipe towards
\* os/exec, or to a file or the null device (not modelled further).
EmitStdout(c) ==
    /\ proc[c].st = "running"
    /\ proc[c].toOut # <<>>
    /\ LET b == Head(proc[c].toOut)
       IN  proc' = [proc EXCEPT
              ![c].toOut = Tail(@),
              ![c].emittedOut = Append(@, b),
              ![c].osOut = IF proc[c].outTo = "osOut" THEN Append(@, b) ELSE @]
    /\ UNCHANGED <<cmd, pipe, thr, opts, sb, scanDoneCh, call, ret, sc, run, net>>

EmitStderr(c) ==
    /\ proc[c].st = "running"
    /\ proc[c].toErr # <<>>
    /\ LET b == Head(proc[c].toErr)
       IN  proc' = [proc EXCEPT
              ![c].toErr = Tail(@),
              ![c].emittedErr = Append(@, b),
              ![c].osOut = IF proc[c].errTo = "osOut" THEN Append(@, b) ELSE @,
              ![c].osErr = IF proc[c].errTo = "osErr" THEN Append(@, b) ELSE @]
    /\ UNCHANGED <<cmd, pipe, thr, opts, sb, scanDoneCh, call, ret, sc, run, net>>

\* The pass-through filter reads what its stdin holds and writes it to its
\* stdout.
ReadStdin(c) ==
    /\ proc[c].st = "running"
    /\ proc[c].kind = "cat"
    /\ proc[c].osIn # <<>>
    /\ proc' = [proc EXCEPT
          ![c].stdinGot = @ \o proc[c].osIn,
          ![c].emittedOut = @ \o proc[c].osIn,
          ![c].osOut = IF proc[c].outTo = "osOut" THEN @ \o proc[c].osIn ELSE @,
          ![c].osIn = <<>>]
    /\ UNCHANGED <<cmd, pipe, thr, opts, sb, scanDoneCh, call, ret, sc, run, net>>

\* The child exits with status n: a producer when it has written its
\* scripts, the filter when it has also read end-of-file on its stdin.
Exit(c, n) ==
    /\ proc[c].st = "running"
    /\ proc[c].toOut = <<>> /\ proc[c].toErr = <<>>
    /\ proc[c].kind = "cat" => proc[c].osIn = <<>> /\ proc[c].inClosed
    /\ proc' = [proc EXCEPT ![c].st = "exited", ![c].status = n,
                            ![c].sawEOF = (proc[c].kind = "cat")]
    /\ UNCHANGED <<cmd, pipe, thr, opts, sb, scanDoneCh, call, ret, sc, run, net>>

\* ------------------------------------------------- goroutines and io.Pipe
\* A step of a goroutine that touches only what is its own (reading the OS
\* pipe of its child, writing into it) is taken together with the io.Pipe
\* operation next to it: no other goroutine can tell.
OsBuffer(r) == IF r = "stdoutCopy" THEN "osOut" ELSE "osErr"
OsCopiers == {"stdoutCopy", "stderrCopy"}

Open(p) == pipe[p.cmd][p.role].made /\ ~pipe[p.cmd][p.role].rclosed /\ ~pipe[p.cmd][p.role].wclosed

\* The chunk a goroutine is writing, or is about to write: io.Copy of os/exec
\* has read what the child's OS pipe holds; a goroutine that is past the
\* first writer of an io.MultiWriter, or that read from an io.Pipe, holds the
\* chunk in its buffer.
Offer(c, r) ==
    IF thr[c][r].st = "write" THEN thr[c][r].hand
    ELSE IF r \in OsCopiers /\ thr[c][r].st = "read" THEN proc[c][OsBuffer(r)]
    ELSE <<>>

\* The writer it is writing the chunk to.
Target(c, r) == thr[c][r].dst[thr[c][r].idx]

\* The writing goroutine when a Write returned: on to the next writer of an
\* io.MultiWriter, or back to reading.
AfterWrite(t, chunk) ==
    IF t.idx < Len(t.dst) THEN [t EXCEPT !.st = "write", !.hand = chunk, !.idx = @ + 1]
    ELSE [t EXCEPT !.st = "read", !.hand = <<>>, !.idx = 1]

\* The reading goroutine when a Read returned a chunk: the scanner scans it
\* (sb) and os/exec's goroutine writes it into the child's stdin (proc), both
\* reading on; io.Copy of Start goes on to write it.
AfterRead(t, r, chunk) ==
    IF r \in {"scan", "stdinCopy"} THEN t
    ELSE [t EXCEPT !.st = "write", !.hand = chunk, !.idx = 1]

\* os/exec's stdin goroutine writing to a child that has exited gets EPIPE:
\* it stops copying, and os/exec does not report that error.
BrokenStdin(c, r) == r = "stdinCopy" /\ proc[c].st # "running"

\* A Write on an io.Pipe meets a Read: the chunk passes from the writing
\* goroutine (wc, wr) to the reading goroutine (rc, rr), through the reader's
\* decoder.
Transfer(wc, wr, rc, rr) ==
    /\ ~Crashed
    /\ Offer(wc, wr) # <<>>
    /\ thr[rc][rr].st = "read"
    /\ LET p == Target(wc, wr)
           raw == Offer(wc, wr)
           chunk == TransformChunk(thr[rc][rr].enc, raw)
           drained == IF wr \in OsCopiers /\ thr[wc][wr].st = "read"
                      THEN [proc EXCEPT ![wc][OsBuffer(wr)] = <<>>] ELSE proc
       IN  /\ thr[rc][rr].src = p
           /\ Open(p)
           /\ thr' = [c \in Cmds |-> [r \in ThreadRoles |->
                        IF c = wc /\ r = wr THEN AfterWrite(thr[c][r], raw)
                        ELSE IF c = rc /\ r = rr
                        THEN IF BrokenStdin(rc, rr) THEN [thr[c][r] EXCEPT !.st = "done"]
                             ELSE AfterRead(thr[c][r], r, chunk)
                        ELSE thr[c][r]]]
           /\ sb' = IF rr = "scan" THEN [sb EXCEPT ![rc] = scanChunk(@, chunk, opts[rc])] ELSE sb
           /\ proc' = IF rr = "stdinCopy" /\ ~BrokenStdin(rc, rr)
                      THEN [drained EXCEPT ![rc].osIn = @ \o chunk] ELSE drained
           /\ pipe' = [pipe EXCEPT ![p.cmd][p.role].written = @ \o raw]
    /\ UNCHANGED <<cmd, opts, scanDoneCh, call, ret, sc, run, net>>

\* A Write on an io.Pipe whose read end (or write end) is closed returns
\* io.ErrClosedPipe: io.Copy ends and the chunk is lost. For os/exec's
\* goroutine that is the error Wait reports.
WriteFail(c, r) ==
    /\ ~Crashed
    /\ Offer(c, r) # <<>>
    /\ ~Open(Target(c, r))
    /\ thr' = [thr EXCEPT ![c][r].st = IF r \in OsCopiers THEN "fail" ELSE "done",
                          ![c][r].hand = <<>>]
    /\ proc' = IF r \in OsCopiers /\ thr[c][r].st = "read"
               THEN [proc EXCEPT ![c][OsBuffer(r)] = <<>>] ELSE proc
    /\ UNCHANGED <<cmd, pipe, opts, sb, scanDoneCh, call, ret, sc, run, net>>

\* io.Copy of os/exec reads end-of-file: the OS pipe is empty and the child,
\* its only writer, has exited.
CopierEOF(c, r) ==
    /\ ~Crashed
    /\ thr[c][r].st = "read"
    /\ proc[c][OsBuffer(r)] = <<>>
    /\ proc[c].st = "exited"
    /\ thr' = [thr EXCEPT ![c][r].st = "done"]
    /\ UNCHANGED <<cmd, pipe, proc, opts, sb, scanDoneCh, call, ret, sc, run, net>>

\* A Read on an io.Pipe returns io.EOF (write end closed) or io.ErrClosedPipe
\* (read end closed): the scan loop ends and its deferred function sends on
\* scanDoneCh; io.Copy ends; os/exec's stdin goroutine closes the child's
\* stdin, and a failed read is the error Wait reports.
ReadEnd(c, r) ==
    /\ ~Crashed
    /\ thr[c][r].st = "read"
    /\ IsPipe(thr[c][r].src)
    /\ ~Open(thr[c][r].src)
    /\ thr' = [thr EXCEPT ![c][r].st =
                  IF r = "stdinCopy" /\ pipe[thr[c][r].src.cmd][thr[c][r].src.role].rclosed
                  THEN "fail" ELSE "done"]
    /\ scanDoneCh' = IF r = "scan" THEN [scanDoneCh EXCEPT ![c] = @ + 1] ELSE scanDoneCh
    /\ proc' = IF r = "stdinCopy" THEN [proc EXCEPT ![c].inClosed = TRUE] ELSE proc
    /\ UNCHANGED <<cmd, pipe, opts, sb, call, ret, sc, run, net>>

\* ------------------------------------------------------- specification
Writers == {"stdoutCopy", "stderrCopy", "copyStdout", "copyStderr"}
Readers == {"scan", "copyStdout", "copyStderr", "stdinCopy"}

\* The child processes and the goroutines.
Background ==
    \/ \E c \in Cmds : EmitStdout(c)
    \/ \E c \in Cmds : EmitStderr(c)
    \/ \E c \in Cmds : \E n \in proc[c].statuses : Exit(c, n)
    \/ \E c \in Cmds : \E r \in OsCopiers : CopierEOF(c, r)
    \/ \E wc \in Cmds : \E wr \in Writers : \E rc \in Cmds : \E rr \in Readers : Transfer(wc, wr, rc, rr)
    \/ \E c \in Cmds : \E r \in Writers : WriteFail(c, r)
    \/ \E c \in Cmds : \E r \in Readers : ReadEnd(c, r)

\* The steps of Start that every Start takes.
StartSteps ==
    \/ \E c \in Cmds : SpawnFail(c)
    \/ \E c \in Cmds : SpawnOk(c)
    \/ \E c \in Cmds : WaitOwn(c)
    \/ \E c \in Cmds : CloseReaders(c)
    \/ \E c \in Cmds : AwaitScan(c)
    \/ \E c \in Cmds : Finish(c)

\* One Command, in no pipe declaration, started once with any StartOptions.
Next ==
    \/ \E o \in SingleOptions : StartBegin("A", o)
    \/ StartSteps
    \/ Background

Spec == Init /\ [][Next]_vars

\* A chain: A's stdout, stderr or both are declared piped to B; A is started,
\* then B.
Declared == \E c \in Cmds : cmd[c].prevCmd # NoCmd

NextChain ==
    \/ \E pr \in PipePairs : PipeStdoutTo(pr[1], pr[2])
    \/ \E pr \in PipePairs : PipeStderrTo(pr[1], pr[2])
    \/ \E c \in Cmds : \E o \in ChainOptions(c) : Declared /\ StartBegin(c, o)
    \/ \E c \in Cmds : WaitPrev(c)
    \/ \E c \in Cmds : ClosePrev(c)
    \/ \E c \in Cmds : ReadStdin(c)
    \/ StartSteps
    \/ Background

InitChain ==
    Constructed /\ proc \in Children(ChainPrograms("A"), ChainPrograms("B")) /\ sc = ScIdle /\ run = RunIdle /\ net = NetIdle

SpecChain == InitChain /\ [][NextChain]_vars

\* The scan loop on its own, over every input up to MaxLen characters, with
\* and without each callback: the closure of Command.Start and the loop of
\* the Options revision of Start.
NoPrograms(c) ==
    [kind : {IF c = "A" THEN "emit" ELSE "cat"}, out : {<<>>}, err : {<<>>}, statuses : {{0}}]

ScanOptions ==
    [ScanStdout : {TRUE}, ScanStderr : {FALSE}, Capture : BOOLEAN, Wait : {TRUE},
     Encoding : {NoEncoding}, NewConsole : {FALSE}, Hide : {FALSE},
     OnChar : BOOLEAN, OnLine : BOOLEAN]

InitScan ==
    /\ Constructed /\ proc \in Children(NoPrograms("A"), NoPrograms("B"))
    /\ sc \in [variant : {"Command", "Options"}, input : SeqsUpTo(ScanInputBytes, MaxLen),
                pos : {0}, done : {FALSE}, o : ScanOptions, s : {ScanState0}]
    /\ run = RunIdle /\ net = NetIdle

\* scanner.Scan() returns true: one iteration of the loop of Command.Start.
ScanCommand ==
    /\ sc.variant = "Command" /\ sc.pos < Len(sc.input)
    /\ sc' = [sc EXCEPT !.pos = @ + 1, !.s = scanChar(@, sc.input[sc.pos + 1], sc.o)]
    /\ UNCHANGED <<cmd, pipe, proc, thr, opts, sb, scanDoneCh, call, ret, run, net>>

\* The same for the loop of the Options revision.
ScanOptionsRevision ==
    /\ sc.variant = "Options" /\ sc.pos < Len(sc.input)
    /\ sc' = [sc EXCEPT !.pos = @ + 1, !.s = scanCharOptions(@, sc.input[sc.pos + 1], sc.o)]
    /\ UNCHANGED <<cmd, pipe, proc, thr, opts, sb, scanDoneCh, call, ret, run, net>>

\* scanner.Scan() returns false at the end of the input: the loop ends.
ScanEnd ==
    /\ sc.variant # "nil" /\ sc.pos = Len(sc.input) /\ ~sc.done
    /\ sc' = [sc EXCEPT !.done = TRUE]
    /\ UNCHANGED <<cmd, pipe, proc, thr, opts, sb, scanDoneCh, call, ret, run, net>>

NextScan == ScanCommand \/ ScanOptionsRevision \/ ScanEnd

SpecScan == InitScan /\ [][NextScan]_vars

\* One Command started with Wait, Capture and an OnChar callback, scanning
\* stdout, stderr, both or neither, with or without an Encoding.
CallbackOptions ==
    [ScanStdout : BOOLEAN, ScanStderr : BOOLEAN, Capture : {TRUE}, Wait : {TRUE},
     Encoding : {NoEncoding, CP866}, NewConsole : {FALSE}, Hide : {FALSE},
     OnChar : {TRUE}, OnLine : {FALSE}]

NextCallback ==
    \/ \E o \in CallbackOptions : StartBegin("A", o)
    \/ StartSteps
    \/ Background

SpecCallback == Init /\ [][NextCallback]_vars

\* Start called again on a Command whose process was spawned, from its entry
\* to the call of c.cmd.Start(): the wiring of lines 227-345 is done again
\* with new pipes and new goroutines; the goroutines of the earlier call keep
\* the pipes, the outSb and the options they were launched with. (Of several
\* rejected calls the pipes and goroutines of the latest are kept.)
Renamed(b) == [i \in 1..Len(b) |-> P(b[i].cmd, Second(b[i].role))]

RenamedThread(t) == [t EXCEPT !.src = P(@.cmd, Second(@.role)), !.dst = Renamed(@)]

StartAgain(c, o) ==
    /\ call.pc = "idle"
    /\ ret[c].returned /\ cmd[c].Process
    /\ ret[c].starts < MaxStarts
    /\ call' = [CallIdle EXCEPT !.cmd = c, !.pc = "spawn"]
    /\ IF Console(o)
       THEN /\ cmd' = [cmd EXCEPT ![c].Stdout = <<OsStdout>>, ![c].Stderr = <<OsStderr>>]
            /\ pipe' = [pipe EXCEPT ![c] = [r \in PipeRoles |->
                            IF r \in {Second(x) : x \in ScanRoles}
                            THEN [Pipe0 EXCEPT !.made = TRUE] ELSE @[r]]]
            /\ thr' = thr
       ELSE /\ cmd' = [cmd EXCEPT
                  ![c].Stdout = IF o.ScanStdout \/ cmd[c].sendStdout
                                THEN Renamed(StdoutBinding(c, o)) ELSE @,
                  ![c].Stderr = IF o.ScanStderr \/ cmd[c].sendStderr
                                THEN Renamed(StderrBinding(c, o)) ELSE @,
                  ![c].Stdin = StdinBinding(c),
                  ![c].stdoutPipe = IF ForwardRole(c) = "stdoutPipe" THEN P(c, "stdoutPipe2") ELSE @,
                  ![c].stderrPipe = IF ForwardRole(c) = "stderrPipe" THEN P(c, "stderrPipe2") ELSE @,
                  ![c].combinedPipe = IF ForwardRole(c) = "combinedPipe" THEN P(c, "combinedPipe2") ELSE @]
            /\ pipe' = [pipe EXCEPT ![c] = [r \in PipeRoles |->
                            IF r \in {Second(x) : x \in ScanRoles \cup {ForwardRole(c)}}
                            THEN [Pipe0 EXCEPT !.made = TRUE] ELSE @[r]]]
            /\ thr' = [thr EXCEPT ![c] = [r \in ThreadRoles |->
                            IF r \in SecondStartRoles /\ FirstRole(r) \in StartThreads(o)
                            THEN RenamedThread(StartThread(c, FirstRole(r), o)) ELSE @[r]]]
    /\ UNCHANGED <<proc, opts, sb, scanDoneCh, ret, sc, run, net>>

\* One Command started, and then started again.
FirstOptions ==
    [ScanStdout : BOOLEAN, ScanStderr : BOOLEAN, Capture : {TRUE}, Wait : BOOLEAN,
     Encoding : {NoEncoding}, NewConsole : {FALSE}, Hide : {FALSE},
     OnChar : {FALSE}, OnLine : {FALSE}]

AgainOptions ==
    [ScanStdout : BOOLEAN, ScanStderr : BOOLEAN, Capture : {TRUE}, Wait : BOOLEAN,
     Encoding : {NoEncoding}, NewConsole : BOOLEAN, Hide : {FALSE},
     OnChar : {FALSE}, OnLine : {FALSE}]

NextRestart ==
    \/ \E o \in FirstOptions : StartBegin("A", o)
    \/ \E o \in AgainOptions : StartAgain("A", o)
    \/ StartSteps
    \/ Background

\* The program started is one of the producers of the chain.
InitRestart ==
    Constructed /\ proc \in Children(ChainPrograms("A"), NoPrograms("B")) /\ sc = ScIdle /\ run = RunIdle /\ net = NetIdle

SpecRestart == InitRestart /\ [][NextRestart]_vars

\* ------------------------------------------- deadline, signals and one Start
\* Everything but run stays as constructed.
RunFrame == UNCHANGED <<cmd, pipe, proc, thr, opts, sb, scanDoneCh, call, ret, sc, net>>

\* The exit statuses ProcessState.ExitCode() reports for a killed process:
\* -1 where it died of a signal, 1 where it was ended by TerminateProcess.
KilledStatuses == {-1, 1}

\* Process.Kill() that removes nothing.
KillNothing(r, st) == r

\* Process.Kill(): a running process ends with a killed status; for one that
\* has exited the request changes nothing (its error is dropped by callers).
Kill(r, st) ==
    IF r.p = "running"
    THEN [r EXCEPT !.p = "exited", !.killed = TRUE, !.status = st]
    ELSE r

\* NewCommand: exec.CommandContext with the caller's context (one with a
\* deadline when Timeout), and signal.Notify on a channel nobody keeps.
RunNewCommand ==
    /\ run.variant = "Command" /\ run.pc = "idle" /\ ~run.crashed
    /\ run' = [run EXCEPT !.pc = "constructed", !.notify = TRUE,
                          !.ctx = IF run.o.Timeout THEN "live" ELSE "background"]
    /\ RunFrame

\* Command.Start up to c.cmd.Start().
RunStartCommand ==
    /\ run.variant = "Command" /\ run.pc = "constructed" /\ ~run.crashed
    /\ run' = [run EXCEPT !.pc = "spawn"]
    /\ RunFrame

\* Start(opts Options) up to cmd.Start(): context.WithTimeout when
\* opts.Timeout > 0, signal.Notify, and the goroutine receiving from sigIntCh.
RunStartOptions ==
    /\ run.variant = "Options" /\ run.pc = "idle" /\ ~run.crashed
    /\ run' = [run EXCEPT !.pc = "spawn", !.notify = TRUE, !.listener = "waiting",
                          !.ctx = IF run.o.Timeout THEN "live" ELSE "background"]
    /\ RunFrame

\* The deferred cancel() of the Options revision, run at every return.
Cancelled(r) ==
    IF r.variant = "Options" /\ r.ctx = "live" THEN [r EXCEPT !.ctx = "canceled"] ELSE r

\* cmd.Start() fails: "Start process" is returned.
RunSpawnFail ==
    /\ run.pc = "spawn" /\ ~run.crashed
    /\ run' = Cancelled([run EXCEPT !.pc = "returned", !.err = "Start process"])
    /\ RunFrame

\* cmd.Start() succeeds (it refuses a context that is already done): the
\* process runs, os/exec watches the context, StartOk is set.
RunSpawnOk ==
    /\ run.pc = "spawn" /\ ~run.crashed
    /\ run.ctx \notin {"expired", "canceled"}
    /\ run' = [run EXCEPT !.Process = TRUE, !.p = "running",
                          !.watch = IF run.ctx = "live" THEN "watching" ELSE "off",
                          !.res.StartOk = TRUE,
                          !.pc = IF run.o.Wait THEN "wait" ELSE "result"]
    /\ RunFrame

\* cmd.Wait() returns once the process has exited; an *ExitError is
\* filtered by errors.As, so a non-zero or killed status is no error.
RunWait ==
    /\ run.pc = "wait" /\ ~run.crashed
    /\ run.p = "exited"
    /\ run' = [run EXCEPT !.ProcessState = TRUE, !.pc = "result",
                          !.watch = IF run.watch = "watching" THEN "done" ELSE @]
    /\ RunFrame

\* The Result is built from cmd.ProcessState and returned with a nil error.
RunResult ==
    /\ run.pc = "result" /\ ~run.crashed
    /\ run' = Cancelled([run EXCEPT
                  !.pc = "returned",
                  !.res.DoneOk = run.ProcessState /\ run.status = 0,
                  !.res.ExitCode = IF run.ProcessState THEN run.status ELSE @])
    /\ RunFrame

\* The context's timer fires.
DeadlineExpires ==
    /\ run.ctx = "live" /\ ~run.crashed
    /\ run' = [run EXCEPT !.ctx = "expired"]
    /\ RunFrame

\* os/exec's goroutine sees ctx.Done() and kills the process.
WatchKill ==
    /\ run.watch = "watching" /\ ~run.crashed
    /\ run.ctx \in {"expired", "canceled"}
    /\ \E st \in KilledStatuses : run' = [Kill(run, st) EXCEPT !.watch = "done"]
    /\ RunFrame

\* An interrupt or terminate signal reaches the program: signal.Notify sends
\* it to sigIntCh without blocking, dropping it when the buffer is full.
Signal ==
    /\ run.notify /\ ~run.crashed
    /\ run.signals < MaxSignals
    /\ run' = [run EXCEPT !.signals = @ + 1, !.sigIntCh = 1]
    /\ RunFrame

\* The listener goroutine receives from sigIntCh.
ListenerReceive ==
    /\ run.listener = "waiting" /\ ~run.crashed
    /\ run.sigIntCh = 1
    /\ run' = [run EXCEPT !.listener = "got", !.sigIntCh = 0]
    /\ RunFrame

\* The listener goroutine runs _ = cmd.Process.Kill().  Before cmd.Start()
\* has stored the process cmd.Process is nil and the call is made on a nil
\* pointer, read without synchronisation: the program panics or the call fails.
ListenerKill ==
    /\ run.listener = "got" /\ ~run.crashed
    /\ IF run.Process
       THEN \E st \in KilledStatuses :
                run' = [Kill(run, st) EXCEPT !.listener = "done", !.kills = @ + 1]
       ELSE \E crash \in BOOLEAN :
                run' = [run EXCEPT !.listener = "done", !.crashed = crash]
    /\ RunFrame

\* The program ends by itself with status n.
RunExit(n) ==
    /\ run.p = "running" /\ ~run.sleeper
    /\ run' = [run EXCEPT !.p = "exited", !.status = n]
    /\ RunFrame

RunStartSteps ==
    \/ RunNewCommand
    \/ RunStartCommand
    \/ RunStartOptions
    \/ RunSpawnFail
    \/ RunSpawnOk
    \/ RunWait
    \/ RunResult

NextRun ==
    \/ RunStartSteps
    \/ DeadlineExpires
    \/ WatchKill
    \/ Signal
    \/ ListenerReceive
    \/ ListenerKill
    \/ \E n \in 0..MaxExit : RunExit(n)

InitRun ==
    /\ Constructed /\ proc \in Children(NoPrograms("A"), NoPrograms("B")) /\ sc = ScIdle
    /\ net = NetIdle
    /\ \E v \in {"Options", "Command"}, w \in BOOLEAN, t \in BOOLEAN, s \in BOOLEAN :
           run = [RunIdle EXCEPT !.variant = v, !.o = [Wait |-> w, Timeout |-> t],
                                 !.sleeper = s]

\* The caller's goroutine, the timer and the two helper goroutines all get
\* to run; signals and a program's own exit are up to the environment.
SpecRun ==
    /\ InitRun /\ [][NextRun]_vars
    /\ WF_vars(RunStartSteps)
    /\ WF_vars(DeadlineExpires)
    /\ WF_vars(WatchKill)
    /\ WF_vars(ListenerReceive)
    /\ WF_vars(ListenerKill)

\* ------------------------------- declarations of the revision before (part_004)
\* PipeStdoutTo of the earlier Command revision: it makes the scan pipe and
\* the forwarding pipe itself and binds both ends at once (c.stdoutScanReader
\* is the reader of c's "stdout" pipe, to.stdoutPipeWriter is kept in to's
\* stdoutPipe field); with stderr already declared it only aliases
\* c.cmd.Stdout to c.cmd.Stderr.
PipeStdoutToEarlier(c, to) ==
    /\ NothingStarted
    /\ IF pipe[c]["stderr"].made
       THEN /\ cmd' = [cmd EXCEPT ![c].Stdout = cmd[c].Stderr]
            /\ pipe' = pipe
       ELSE /\ pipe' = [pipe EXCEPT ![c]["stdout"].made = TRUE,
                                    ![c]["stdoutPipe"].made = TRUE]
            /\ cmd' = [cmd EXCEPT ![c].Stdout = <<P(c, "stdout"), P(c, "stdoutPipe")>>,
                                  ![to].stdoutPipe = P(c, "stdoutPipe"),
                                  ![to].Stdin = P(c, "stdoutPipe"),
                                  ![to].prevCmd = c]
    /\ UNCHANGED <<proc, thr, opts, sb, scanDoneCh, call, ret, sc, run, net>>

PipeStderrToEarlier(c, to) ==
    /\ NothingStarted
    /\ IF pipe[c]["stdout"].made
       THEN /\ cmd' = [cmd EXCEPT ![c].Stderr = cmd[c].Stdout]
            /\ pipe' = pipe
       ELSE /\ pipe' = [pipe EXCEPT ![c]["stderr"].made = TRUE,
                                    ![c]["stderrPipe"].made = TRUE]
            /\ cmd' = [cmd EXCEPT ![c].Stderr = <<P(c, "stderr"), P(c, "stderrPipe")>>,
                                  ![to].stderrPipe = P(c, "stderrPipe"),
                                  ![to].Stdin = P(c, "stderrPipe"),
                                  ![to].prevCmd = c]
    /\ UNCHANGED <<proc, thr, opts, sb, scanDoneCh, call, ret, sc, run, net>>

\* A program uses the declarations of one revision: those of the earlier one
\* are recognised by the pipes they made, those of the current one by the
\* send flags they set.
EarlierDeclared == NothingStarted /\ \E c \in Cmds, r \in PipeRoles : pipe[c][r].made
CurrentDeclared == \E c \in Cmds : cmd[c].sendStdout \/ cmd[c].sendStderr

DeclarePrograms(c) ==
    IF c = "A"
    THEN [kind : {"emit"}, out : {<<97>>}, err : ChainErrScripts, statuses : {ChainStatuses}]
    ELSE [kind : {"cat"}, out : {<<>>}, err : {<<>>}, statuses : {{0}}]

NextDeclare ==
    \/ \E pr \in PipePairs : ~CurrentDeclared /\ PipeStdoutToEarlier(pr[1], pr[2])
    \/ \E pr \in PipePairs : ~CurrentDeclared /\ PipeStderrToEarlier(pr[1], pr[2])
    \/ \E pr \in PipePairs : ~EarlierDeclared /\ PipeStdoutTo(pr[1], pr[2])
    \/ \E pr \in PipePairs : ~EarlierDeclared /\ PipeStderrTo(pr[1], pr[2])
    \/ \E c \in Cmds : \E o \in ChainOptions(c) : CurrentDeclared /\ StartBegin(c, o)
    \/ \E c \in Cmds : WaitPrev(c)
    \/ \E c \in Cmds : ClosePrev(c)
    \/ \E c \in Cmds : ReadStdin(c)
    \/ StartSteps
    \/ Background

InitDeclare ==
    Constructed /\ proc \in Children(DeclarePrograms("A"), DeclarePrograms("B")) /\ sc = ScIdle /\ run = RunIdle /\ net = NetIdle

SpecDeclare == InitDeclare /\ [][NextDeclare]_vars

\* The chain with every goroutine, every child process and the caller
\* scheduled: no step that stays possible is put off forever.
InitChainFair ==
    Constructed /\ proc \in Children(DeclarePrograms("A"), DeclarePrograms("B")) /\ sc = ScIdle /\ run = RunIdle /\ net = NetIdle

SpecChainFair == InitChainFair /\ [][NextChain]_vars /\ WF_vars(NextChain)

\* One Command with the caller, its goroutines and its process scheduled.
InitFair ==
    Constructed /\ proc \in Children(DeclarePrograms("A"), NoPrograms("B")) /\ sc = ScIdle /\ run = RunIdle /\ net = NetIdle

SpecFair == InitFair /\ [][Next]_vars /\ WF_vars(Next)

\* A chain by PipeStdoutTo whose consumer either copies its stdin to
\* end-of-file ("cat") or exits without reading all of it ("head").
EarlyPrograms(c) ==
    IF c = "A"
    THEN [kind : {"emit"}, out : {<<>>, <<97, 97>>}, err : ChainErrScripts,
          statuses : {ChainStatuses}]
    ELSE [kind : {"cat", "head"}, out : {<<>>}, err : {<<>>}, statuses : {{0}}]

NextStdoutChain ==
    \/ \E pr \in PipePairs : PipeStdoutTo(pr[1], pr[2])
    \/ \E c \in Cmds : \E o \in ChainOptions(c) : Declared /\ StartBegin(c, o)
    \/ \E c \in Cmds : WaitPrev(c)
    \/ \E c \in Cmds : ClosePrev(c)
    \/ \E c \in Cmds : ReadStdin(c)
    \/ StartSteps
    \/ Background

InitStdoutChain ==
    Constructed /\ proc \in Children(EarlyPrograms("A"), EarlyPrograms("B")) /\ sc = ScIdle /\ run = RunIdle /\ net = NetIdle

SpecStdoutChain == InitStdoutChain /\ [][NextStdoutChain]_vars /\ WF_vars(NextStdoutChain)

\* ------------------------------------------------ topologies of three Commands
NetFrame == UNCHANGED <<cmd, pipe, proc, thr, opts, sb, scanDoneCh, call, ret, sc, run>>

NetNothingStarted == \A c \in Names : ~net[c].started

\* PipeStdoutTo and PipeStderrTo between any two of the three Commands.
NetPipeStdoutTo(c, to) ==
    /\ NetNothingStarted
    /\ c # to
    /\ net' = [net EXCEPT ![c].sendStdout = TRUE,
                          ![to].receiveStdout = TRUE,
                          ![to].prevCmd = c,
                          ![to].sources = @ \cup {c}]
    /\ NetFrame

NetPipeStderrTo(c, to) ==
    /\ NetNothingStarted
    /\ c # to
    /\ net' = [net EXCEPT ![c].sendStderr = TRUE,
                          ![to].receiveStderr = TRUE,
                          ![to].prevCmd = c,
                          ![to].sources = @ \cup {c}]
    /\ NetFrame

\* The forwarding pipe Start makes for c (lines 300-326): one, chosen by the
\* send flags.
NetForwardRole(c) ==
    IF net[c].sendStdout /\ net[c].sendStderr THEN "combinedPipe"
    ELSE IF net[c].sendStdout THEN "stdoutPipe"
    ELSE IF net[c].sendStderr THEN "stderrPipe"
    ELSE "nil"

\* c.cmd.Stdin after lines 328-334: the reader field of prevCmd chosen by the
\* receive flags, whatever it holds.
NetStdin(c) ==
    LET prev == net[c].prevCmd
    IN  IF net[c].receiveStdout /\ net[c].receiveStderr THEN net[prev].combinedPipe
        ELSE IF net[c].receiveStdout THEN net[prev].stdoutPipe
        ELSE IF net[c].receiveStderr THEN net[prev].stderrPipe
        ELSE net[c].Stdin

\* The wiring of Start (non-console branch) for c.
NetStart(c) ==
    /\ ~net[c].started
    /\ LET role == NetForwardRole(c)
           made == IF role = "nil" THEN net[c] ELSE [net[c] EXCEPT ![role] = P(c, role)]
       IN  net' = [net EXCEPT ![c] = [made EXCEPT
                      !.Stdin = NetStdin(c),
                      !.started = TRUE,
                      !.inOrder = \A d \in net[c].sources : net[d].started]]
    /\ NetFrame

NextNet ==
    \/ \E c \in Names, to \in Names : NetPipeStdoutTo(c, to)
    \/ \E c \in Names, to \in Names : NetPipeStderrTo(c, to)
    \/ \E c \in Names : NetStart(c)

InitNet ==
    /\ Constructed /\ proc \in Children(NoPrograms("A"), NoPrograms("B")) /\ sc = ScIdle
    /\ run = RunIdle /\ net = NetIdle

SpecNet == InitNet /\ [][NextNet]_vars

\* ================================================================== claims
\* The characters a scanner makes of the bytes of a stream: decoded by the
\* Encoding, then split into runes.
Characters(enc, bytes) == [i \in 1..Len(bytes) |-> ScanRune(TransformChunk(enc, bytes)[i])]

CharacterSet(enc, S) == {ScanRune(TransformChunk(enc, <<b>>)[1]) : b \in S}

\* Start's spawn succeeded and no wait system call failed in it.
Spawned(c) == ret[c].returned /\ cmd[c].Process
NoWaitFailure(c) == ret[c].cause \in {"nil", "exit"}

\* C1: for a Command without an upstream whose process spawns and exits with
\* status N (the wait system call reporting it), Start with Wait=true returns
\* a nil error and a Result with StartOk=true, ExitCode=N, DoneOk=(N=0).
C1_ExitStatusReported ==
    \A c \in Cmds :
        (Spawned(c) /\ cmd[c].prevCmd = NoCmd /\ opts[c].Wait /\ ret[c].cause # "io")
        => /\ ret[c].err = "nil"
           /\ proc[c].st = "exited"
           /\ ret[c].res.StartOk
           /\ ret[c].res.ExitCode = proc[c].status
           /\ ret[c].res.DoneOk = (proc[c].status = 0)

C1_Witness ==
    /\ Spawned("A") /\ opts["A"].Wait /\ opts["A"].ScanStdout
    /\ proc["A"].status = 1 /\ ret["A"].res.ExitCode = 1 /\ ~ret["A"].res.DoneOk

\* C2: with A.PipeStdoutTo(B) declared, A started with Wait=false and then B
\* started with Wait, Capture and ScanStdout (both spawned, no wait system
\* call failing), B's process has received on its stdin exactly what A's
\* process wrote to its stdout, then end-of-file, and the pass-through B's
\* Result.Output is A's output.
C2_ChainDelivers ==
    (/\ cmd["B"].prevCmd = "A" /\ cmd["A"].sendStdout /\ ~cmd["A"].sendStderr
     /\ Spawned("A") /\ ~opts["A"].Wait
     /\ Spawned("B") /\ opts["B"].Wait /\ opts["B"].Capture /\ opts["B"].ScanStdout
     /\ NoWaitFailure("B"))
    => /\ proc["B"].stdinGot = proc["A"].emittedOut
       /\ proc["B"].sawEOF
       /\ ret["B"].res.Output = Characters(opts["B"].Encoding, proc["A"].emittedOut)

\* C3: a Start with Wait and Capture that returned a Result: Output restricted
\* to the characters of each scanned stream is what the process wrote to that
\* stream, nothing dropped, duplicated or reordered.
C3_OutputIsEmitted ==
    \A c \in Cmds :
        (Spawned(c) /\ ret[c].err = "nil" /\ opts[c].Wait /\ opts[c].Capture)
        => /\ opts[c].ScanStdout =>
                Filter(ret[c].res.Output, CharacterSet(opts[c].Encoding, OutBytes))
                    = Characters(opts[c].Encoding, proc[c].emittedOut)
           /\ opts[c].ScanStderr =>
                Filter(ret[c].res.Output, CharacterSet(opts[c].Encoding, ErrBytes))
                    = Characters(opts[c].Encoding, proc[c].emittedErr)

\* C3, the part that holds: the same with one stream scanned.
C3_OneStreamScanned ==
    \A c \in Cmds :
        (Spawned(c) /\ ret[c].err = "nil" /\ opts[c].Wait /\ opts[c].Capture
         /\ opts[c].ScanStdout # opts[c].ScanStderr)
        => ret[c].res.Output =
              Characters(opts[c].Encoding,
                         IF opts[c].ScanStdout THEN proc[c].emittedOut ELSE proc[c].emittedErr)

C5_ExitStatusIsNoError ==
    \A c \in Cmds : ret[c].returned => ret[c].cause # "exit"

\* C5, the part that holds: the Command's own process.
C5_OwnExitStatusIsNoError ==
    \A c \in Cmds : ret[c].returned /\ ret[c].err = "Wait for process" => ret[c].cause # "exit"

\* C6: a Start whose spawn failed returned at once a non-nil error and
\* Result{StartOk=false, DoneOk=false, ExitCode=-1, Output empty}: it spawned
\* once and waited on no process, its upstream's included.
C6_SpawnFailure ==
    \A c \in Cmds :
        (ret[c].returned /\ ~cmd[c].Process)
        => /\ ret[c].err = "Start process"
           /\ ret[c].res = [StartOk |-> FALSE, DoneOk |-> FALSE, ExitCode |-> -1, Output |-> <<>>]
           /\ ret[c].waited = {}
           /\ ret[c].spawns = 1

C6_Witness ==
    /\ ret["B"].returned /\ ~cmd["B"].Process /\ cmd["B"].prevCmd = "A"
    /\ proc["A"].st = "running" /\ ret["B"].err = "Start process"

\* C7: after a Start whose spawn failed has returned, no goroutine it
\* launched is running or blocked and every pipe it created has both ends
\* closed.
C7_NothingLeftAfterSpawnFailure ==
    \A c \in Cmds :
        (ret[c].returned /\ ~cmd[c].Process)
        => /\ \A r \in StartRoles : thr[c][r].st \in {"off", "done"}
           /\ \A r \in PipeRoles : pipe[c][r].made => pipe[c][r].rclosed /\ pipe[c][r].wclosed

\* C8: when the Start of a Command with an upstream has returned a nil error,
\* with Wait or without, the upstream's process has exited; with Wait its own
\* process has exited too.
C8_UpstreamTerminated ==
    \A c \in Cmds :
        (ret[c].returned /\ ret[c].err = "nil" /\ cmd[c].prevCmd # NoCmd)
        => /\ proc[cmd[c].prevCmd].st = "exited"
           /\ opts[c].Wait => proc[c].st = "exited"

C8_Witness ==
    /\ ret["B"].returned /\ ret["B"].err = "nil" /\ cmd["B"].prevCmd = "A"
    /\ ~opts["B"].Wait /\ proc["A"].st = "exited" /\ proc["A"].emittedOut # <<>>

\* C9: a stream of a started Command that is both forwarded and scanned
\* (sendStdout with ScanStdout, sendStderr with ScanStderr, one forwarding
\* pipe or the combined one): what has been written to the scan pipe and what
\* has been written of that stream to the forwarding pipe are what the
\* process wrote, in its order, the forwarding pipe behind the scan pipe by
\* at most the chunk being written; when os/exec's goroutine has copied the
\* stream to its end, both have received all of it.
Duplicated(c, scanRole, copier, alphabet, emitted) ==
    LET scanW == pipe[c][scanRole].written
        forwardW == Filter(pipe[c][ForwardRole(c)].written, alphabet)
    IN  /\ IsPrefix(forwardW, scanW)
        /\ IsPrefix(scanW, emitted)
        /\ thr[c][copier].st \in {"read", "done"} => forwardW = scanW
        /\ thr[c][copier].st = "done" => scanW = emitted

C9_Duplication ==
    \A c \in Cmds :
        (pipe[c]["stdout"].made /\ ~Console(opts[c]))
        => /\ (cmd[c].sendStdout /\ opts[c].ScanStdout)
                => Duplicated(c, "stdout", "stdoutCopy", OutBytes, proc[c].emittedOut)
           /\ (cmd[c].sendStderr /\ opts[c].ScanStderr)
                => Duplicated(c, "stderr", "stderrCopy", ErrBytes, proc[c].emittedErr)

C9_Witness ==
    /\ cmd["A"].sendStdout /\ cmd["A"].sendStderr
    /\ opts["A"].ScanStdout /\ opts["A"].ScanStderr
    /\ thr["A"]["stdoutCopy"].st = "done" /\ thr["A"]["stderrCopy"].st = "done"
    /\ Len(proc["A"].emittedOut) = MaxOut /\ proc["A"].emittedErr # <<>>
    /\ pipe["A"]["stdout"].written = proc["A"].emittedOut
    /\ Len(pipe["A"]["combinedPipe"].written) = MaxOut + Len(proc["A"].emittedErr)

\* The positions of the line terminators of an input, and the text strictly
\* between the (i-1)-th and the i-th of them.
TerminatorPositions(input) == {i \in 1..Len(input) : input[i] = LF \/ input[i] = CR}

NthTerminator(input, i) ==
    CHOOSE p \in TerminatorPositions(input) :
        Cardinality({q \in TerminatorPositions(input) : q <= p}) = i

TextBefore(input, i) ==
    SubSeq(input, IF i = 1 THEN 1 ELSE NthTerminator(input, i - 1) + 1,
           NthTerminator(input, i) - 1)

LinesOf(input) ==
    [i \in 1..Cardinality(TerminatorPositions(input)) |-> TextBefore(input, i)]

\* C10: when the scan loop has ended on an input with k line terminators
\* ("\n" and "\r" each one), OnLine was called exactly k times, the i-th time
\* with the text strictly between the (i-1)-th and the i-th terminator; the
\* text after the last terminator was not passed to it.
C10_OnLinePerTerminator ==
    (sc.done /\ sc.o.OnLine) => sc.s.lines = LinesOf(sc.input)

\* C10, the part that holds: the scan closure of Command.Start.
C10_CommandOnLinePerTerminator ==
    (sc.done /\ sc.o.OnLine /\ sc.variant = "Command") => sc.s.lines = LinesOf(sc.input)

C12_ExitCodeSentinel ==
    \A c \in Cmds :
        ret[c].returned
        => /\ (ret[c].err # "nil" \/ ~opts[c].Wait)
                => ret[c].res.ExitCode = -1 /\ ~ret[c].res.DoneOk
           /\ ret[c].res.ExitCode # -1
                => cmd[c].ProcessState /\ ret[c].res.ExitCode = proc[c].status

C12_Witness ==
    /\ ret["B"].returned /\ ret["B"].err = "nil" /\ ~opts["B"].Wait
    /\ proc["B"].st = "exited" /\ ret["B"].res.StartOk
    /\ ret["B"].res.ExitCode = -1 /\ ~ret["B"].res.DoneOk

\* C13: a Start called again on a Command whose process was spawned has
\* returned a non-nil error and StartOk = false; no Command ever has a second
\* process spawned, so its process handle is set at most once.
C13_SecondStartRejected ==
    \A c \in Cmds :
        /\ proc[c].spawned <= 1
        /\ (ret[c].returned /\ ret[c].starts >= 2)
            => /\ ret[c].err = "Start process"
               /\ ~ret[c].res.StartOk
               /\ ret[c].spawns = 1

C13_Witness ==
    /\ ret["A"].returned /\ ret["A"].starts = 2 /\ ret["A"].err = "Start process"
    /\ proc["A"].spawned = 1 /\ proc["A"].st = "running" /\ thr["A"]["scan2"].st = "read"

C15_SignalKills ==
    /\ [](run.pc = "returned" /\ run.res.StartOk => run.err = "nil")
    /\ []((run.sigIntCh = 1 /\ run.p = "running") => <>(run.kills > 0))

\* The same for the Options revision alone, whose Start has the listener.
C15_OptionsSignalKills ==
    []((run.variant = "Options" /\ run.sigIntCh = 1 /\ run.p = "running")
        => <>(run.kills > 0))

\* C16: a pipe declaration changes only the send flags, the receive flags and
\* the upstream reference of the Commands; it makes no pipe, no process and no
\* goroutine, and leaves every other field of every Command as it was.
StructuralFields == {"sendStdout", "sendStderr", "receiveStdout", "receiveStderr", "prevCmd"}

DeclarationStep == NothingStarted /\ call' = call

PureEdit ==
    /\ pipe' = pipe /\ proc' = proc /\ thr' = thr
    /\ \A c \in Cmds : \A f \in (DOMAIN cmd[c]) \ StructuralFields : cmd'[c][f] = cmd[c][f]

C16_DeclarationsArePure == [][DeclarationStep => PureEdit]_vars

\* C17: the write end of an upstream's forwarding pipe is closed only after
\* the upstream process has exited and everything it emitted on the forwarded
\* streams has been written to the pipe, and the downstream process observes
\* end-of-file on its stdin only after that close.
Forwarded(c, r) ==
    /\ (cmd[c].sendStdout
        => Filter(pipe[c][r].written, OutBytes) = proc[c].emittedOut /\ proc[c].toOut = <<>>)
    /\ (cmd[c].sendStderr
        => Filter(pipe[c][r].written, ErrBytes) = proc[c].emittedErr /\ proc[c].toErr = <<>>)

C17_CloseAfterExit ==
    \A c \in Cmds : \A r \in ForwardRoles :
        pipe[c][r].wclosed => proc[c].st = "exited" /\ r = ForwardRole(c) /\ Forwarded(c, r)

C17_EOFAfterClose ==
    \A to \in Cmds :
        (cmd[to].prevCmd # NoCmd /\ proc[to].sawEOF)
            => pipe[cmd[to].prevCmd][ForwardRole(cmd[to].prevCmd)].wclosed

C17_TeardownOrder == C17_CloseAfterExit /\ C17_EOFAfterClose

\* The second half of C17 for an upstream started with Wait=false, whose
\* Start closes no read end.
C17_EOFAfterCloseDetached ==
    \A to \in Cmds :
        (cmd[to].prevCmd # NoCmd /\ proc[to].sawEOF /\ ~opts[cmd[to].prevCmd].Wait)
            => pipe[cmd[to].prevCmd][ForwardRole(cmd[to].prevCmd)].wclosed

\* C18: when the upstream process is still running after the downstream has
\* been started, then, whatever status it exits with, the upstream's
\* forwarding write end is eventually closed and the downstream process
\* eventually observes end-of-file on its stdin (unless a wait system call
\* failed).
UpstreamRunning(c, to) ==
    /\ cmd[to].prevCmd = c /\ cmd[to].Process
    /\ proc[c].st = "running"

ChainEnded(c, to) ==
    /\ ForwardRole(c) # "nil"
    /\ pipe[c][ForwardRole(c)].wclosed
    /\ proc[to].sawEOF

C18_ChainTerminates ==
    \A pr \in PipePairs :
        [](UpstreamRunning(pr[1], pr[2])
            => <>(ChainEnded(pr[1], pr[2]) \/ ret[pr[2]].cause = "io"))

\* The same for an upstream that exited with status 0.
C18_ChainTerminatesOnSuccess ==
    \A pr \in PipePairs :
        [](UpstreamRunning(pr[1], pr[2])
            => <>(\/ ChainEnded(pr[1], pr[2]) \/ ret[pr[2]].cause = "io"
                  \/ proc[pr[1]].st = "exited" /\ proc[pr[1]].status # 0))

\* C19: the write end of every pipe made by Start is closed after the producing
\* process has exited and before the scanner consuming the pipe finishes: a
\* scanner that has finished read a pipe whose write end is closed, and a
\* closed write end belongs to a Command whose process has exited.
ScanSource(c) == thr[c]["scan"].src

C19_WriteEndsClosed ==
    \A c \in Cmds :
        /\ (thr[c]["scan"].st = "done" /\ IsPipe(ScanSource(c)))
               => pipe[ScanSource(c).cmd][ScanSource(c).role].wclosed
        /\ \A r \in ScanRoles \cup ForwardRoles :
               pipe[c][r].wclosed => proc[c].st = "exited"

\* The half of C19 about when a write end is closed.
C19_ClosedAfterExit ==
    \A c \in Cmds : \A r \in ScanRoles \cup ForwardRoles :
        pipe[c][r].wclosed => proc[c].st = "exited"

\* C20: every pipe has at most one goroutine attached to its write end: no two
\* goroutines that are still running write to the same pipe.
WritersOf(p) ==
    {w \in Cmds \X ThreadRoles :
        /\ thr[w[1]][w[2]].st \in {"read", "write"}
        /\ \E i \in 1..Len(thr[w[1]][w[2]].dst) : thr[w[1]][w[2]].dst[i] = p}

C20_SingleWriter ==
    \A c \in Cmds : \A r \in ScanRoles \cup ForwardRoles :
        Cardinality(WritersOf(P(c, r))) <= 1

\* C20 for the forwarding pipes alone, and for the pipes of a Start that
\* scans at most one stream and forwards at most one.
C20_SingleForwardWriter ==
    \A c \in Cmds : \A r \in ForwardRoles : Cardinality(WritersOf(P(c, r))) <= 1

C20_SingleWriterOneStream ==
    \A c \in Cmds :
        (~(opts[c].ScanStdout /\ opts[c].ScanStderr) /\ ~(cmd[c].sendStdout /\ cmd[c].sendStderr))
            => \A r \in ScanRoles \cup ForwardRoles : Cardinality(WritersOf(P(c, r))) <= 1

\* C21: after a successful Start with Wait=false has returned, a process that
\* was killed was killed because its deadline expired or because a signal
\* made the listener kill it, never because Start returned.
C21_Detached ==
    (run.pc = "returned" /\ run.res.StartOk /\ ~run.o.Wait /\ run.killed)
        => (run.ctx = "expired" \/ run.kills > 0)

\* C21 for the Command revision, whose Start cancels no context.
C21_CommandDetached ==
    (run.variant = "Command" /\ run.pc = "returned" /\ run.res.StartOk /\ ~run.o.Wait /\ run.killed)
        => (run.ctx = "expired" \/ run.kills > 0)

\* C21 for the Options revision called without a timeout.
C21_NoTimeoutDetached ==
    (run.variant = "Options" /\ ~run.o.Timeout /\ run.pc = "returned" /\ run.res.StartOk
        /\ ~run.o.Wait /\ run.killed)
        => run.kills > 0

\* C22: on a Command without pipes, once the process of a Start with Wait=true
\* has exited, that Start eventually returns, whatever the StartOptions.
Waiting(c) == call.cmd = c /\ opts[c].Wait /\ proc[c].st = "exited"

C22_WaitReturns == [](Waiting("A") => <>ret["A"].returned)

\* C22 for the StartOptions that do not combine a console with scanning.
C22_WaitReturnsNoConsoleScan ==
    [](    (Waiting("A") /\ ~(Console(opts["A"]) /\ (opts["A"].ScanStdout \/ opts["A"].ScanStderr)))
        => <>ret["A"].returned)

\* C23: in a chain by PipeStdoutTo started producer first, the producer with
\* Wait=false, every Start call eventually returns.
C23_EveryStartReturns ==
    \A c \in Cmds : [](call.cmd = c /\ ~opts["A"].Wait => <>ret[c].returned)

\* C23 for a consumer that reads its stdin to end-of-file.
C23_EveryStartReturnsReadingAll ==
    \A c \in Cmds :
        [](call.cmd = c /\ ~opts["A"].Wait /\ proc["B"].kind = "cat" => <>ret[c].returned)

\* C24: no process is waited on by two Start calls: the Commands whose Start
\* called Wait on the process of x are at most one.
WaitedBy(x) == {c \in Cmds : x \in ret[c].waited \/ (call.cmd = c /\ x \in call.waited)}

C24_WaitedOnce == \A x \in Cmds : Cardinality(WaitedBy(x)) <= 1

\* C24 for chains whose upstream was started with Wait=false.
C24_WaitedOnceDetached ==
    \A x \in Cmds : ~opts[x].Wait => Cardinality(WaitedBy(x)) <= 1

\* C25: a Command with a receive flag, started after every Command that
\* declared a pipe to it, has its stdin bound to a pipe made by its recorded
\* upstream.
Receiving(c) == net[c].started /\ net[c].inOrder /\ (net[c].receiveStdout \/ net[c].receiveStderr)

BoundToUpstream(c) == net[c].Stdin # NilPipe /\ net[c].Stdin.cmd = net[c].prevCmd

C25_StdinBound == \A c \in Names : Receiving(c) => BoundToUpstream(c)

\* C25 for the topologies in which every upstream pipes to one downstream
\* only and every downstream has one upstream only.
OneToOne ==
    \A c \in Names :
        /\ Cardinality(net[c].sources) <= 1
        /\ Cardinality({to \in Names : c \in net[to].sources}) <= 1

C25_StdinBoundOneToOne == \A c \in Names : (OneToOne /\ Receiving(c)) => BoundToUpstream(c)

\* C26: when a second Start on a Command has been rejected, the Command's
\* stream bindings and forwarding pipe fields refer to no pipe made by the
\* rejected call, and no goroutine launched by the rejected call is running.
MadeByLaterStart(p) == p.role \in SecondRoles

Rejected(c) == ret[c].returned /\ ret[c].starts >= 2 /\ ret[c].err = "Start process"

C26_RejectedStartChangesNothing ==
    \A c \in Cmds :
        Rejected(c)
            => /\ \A i \in 1..Len(cmd[c].Stdout) : ~MadeByLaterStart(cmd[c].Stdout[i])
               /\ \A i \in 1..Len(cmd[c].Stderr) : ~MadeByLaterStart(cmd[c].Stderr[i])
               /\ \A f \in ForwardRoles : ~MadeByLaterStart(cmd[c][f])
               /\ \A r \in SecondStartRoles : thr[c][r].st \in {"off", "done"}

\* C27: the listener never calls Kill on a process handle that is not there
\* (the program does not crash), and it does not outlive a failed spawn.
C27_ListenerSafe ==
    /\ ~run.crashed
    /\ (run.pc = "returned" /\ ~run.res.StartOk) => run.listener \in {"off", "done"}

\* The first half of C27 alone, and what holds of it: a crash happens only
\* while cmd.Start() has stored no process.
C27_NoCrash == ~run.crashed

C27_CrashOnlyWithoutProcess == run.crashed => ~run.Process

====
